---------------------------- MODULE Spec2Model ----------------------------
(***************************************************************************)
(* Float8_e4m3fnuz / Float8_e5m2fnuz (c10/util): the 8-bit FNUZ value      *)
(* types, their conversions from and to float32, the arithmetic operators  *)
(* of Float8_e4m3fnuz and its numeric_limits table.                        *)
(*                                                                         *)
(* A float32 is the record [sign, exp, man] of its IEEE-754 fields (1, 8   *)
(* and 23 bits); a narrow code is an integer 0..255.                       *)
(*                                                                         *)
(* The software conversion templates fp8_fnuz_from_fp32_value and          *)
(* fp8_fnuz_to_fp32_value live in c10/util/Float8_fnuz_cvt.h, which the    *)
(* headers include but which is not among the source files; they are       *)
(* written here from sections 4.2-4.4 of the specification.                *)
(***************************************************************************)
EXTENDS Integers, FiniteSets, Sequences

VARIABLES
    fmt,    \* the value type: "e4m3fnuz" or "e5m2fnuz"
    path,   \* which constructor ran: "host" (software) or "device" (MI300)
    v,      \* the float32 handed to the constructor
    rm,     \* rounding_mode: "standard" or "stochastic"
    rng,    \* the caller's random bits
    x,      \* the uint8_t member x of the value
    f,      \* the float32 operator float() returned
    y,      \* the member x of a second value constructed from f
    lim,    \* the numeric_limits member x was taken from, or "from_bits"
    pc,     \* position of the calling program
    acc,    \* arithmetic: the Float8_e4m3fnuz object operated on
    lhs,    \* arithmetic: left operand of the last operator
    rhs,    \* arithmetic: right operand of the last operator
    op,     \* arithmetic: the last operator
    res     \* arithmetic: what the last operator returned

vars == <<fmt, path, v, rm, rng, x, f, y, lim, pc, acc, lhs, rhs, op, res>>

---------------------------------------------------------------------------
(* Bounds of the sampled input space.                                      *)

\* float32 exponents sampled this far outside a format's finite range
ExpMargin == 2
\* leading mantissa bits of the sampled float32 inputs that are enumerated
MantTopBits == 4

---------------------------------------------------------------------------
(* Bit helpers (all operands stay below 2^30).                             *)

Min(a, b) == IF a <= b THEN a ELSE b

ShiftRight(n, k) == IF k >= 30 THEN 0 ELSE n \div (2 ^ k)

LowBits(n, k) == IF k >= 30 THEN n ELSE n % (2 ^ k)

\* number of bits of n: 0 for 0, else the k with 2^(k-1) <= n < 2^k
BitLen4(n) == IF n < 4 THEN (IF n < 2 THEN n ELSE 2) ELSE (IF n < 8 THEN 3 ELSE 4)

BitLen8(n) == IF n < 16 THEN BitLen4(n) ELSE 4 + BitLen4(n \div 16)

BitLen16(n) == IF n < 256 THEN BitLen8(n) ELSE 8 + BitLen8(n \div 256)

BitLen(n) == IF n < 65536 THEN BitLen16(n) ELSE 16 + BitLen16(n \div 65536)

---------------------------------------------------------------------------
(* BitView: the float32 fields and classes.                                *)

Float(s, e, m) == [sign |-> s, exp |-> e, man |-> m]

IsNaN(fl) == fl.exp = 255 /\ fl.man # 0

IsInf(fl) == fl.exp = 255 /\ fl.man = 0

IsZero(fl) == fl.exp = 0 /\ fl.man = 0

QuietNaN == Float(0, 255, 2 ^ 22)

\* |a| > |b| for non-NaN a, b: the magnitude order is the order of (exp, man)
MagGreater(a, b) == a.exp > b.exp \/ (a.exp = b.exp /\ a.man > b.man)

---------------------------------------------------------------------------
(* FormatConfig.                                                           *)

NaNCode == 128

FormatBias(we) == 2 ^ (we - 1)

MaxExpField(we) == 2 ^ we - 1

\* max_finite_magnitude as a float32: 240.0 for <4,3>, 57344.0 for <5,2>
MaxFinite(we, wm, s) ==
    Float(s, 127 + MaxExpField(we) - FormatBias(we), (2 ^ wm - 1) * 2 ^ (23 - wm))

---------------------------------------------------------------------------
(* RoundingPolicy: kept is the mantissa's kept bits, disc the discarded    *)
(* low bits, dw the width of the discarded range.                          *)

RoundUpStandard(kept, disc, dw) ==
    IF dw = 0 \/ dw > 25 THEN FALSE
    ELSE LET half == 2 ^ (dw - 1)
         IN  disc > half \/ (disc = half /\ kept % 2 = 1)

RoundUpStochastic(disc, dw, r) == LowBits(r, dw) < disc

RoundUp(kept, disc, dw, stochastic, r) ==
    IF stochastic THEN RoundUpStochastic(disc, dw, r)
    ELSE RoundUpStandard(kept, disc, dw)

---------------------------------------------------------------------------
(* Encoder steps 3-8 on a finite value c.                                  *)

RoundAndPack(we, wm, c, stochastic, r) ==
    IF IsZero(c) THEN 0
    ELSE
    LET sig      == IF c.exp = 0 THEN c.man ELSE 2 ^ 23 + c.man
        unbiased == IF c.exp = 0 THEN -126 ELSE c.exp - 127
        target   == unbiased + FormatBias(we)
        subn     == target <= 0
        extra    == IF subn THEN 1 - target ELSE 0
        field    == IF subn THEN 0 ELSE target
        dw       == (23 - wm) + extra
        kept     == ShiftRight(sig, dw)
        disc     == LowBits(sig, dw)
        rounded  == kept + (IF RoundUp(kept, disc, dw, stochastic, r) THEN 1 ELSE 0)
        \* carry out of the mantissa goes into the exponent field
        carry    == IF subn THEN rounded = 2 ^ wm ELSE rounded = 2 ^ (wm + 1)
        field2   == IF carry THEN field + 1 ELSE field
        mant2    == IF carry THEN 0
                    ELSE IF subn THEN rounded ELSE rounded - 2 ^ wm
        over     == field2 > MaxExpField(we)
        field3   == IF over THEN MaxExpField(we) ELSE field2
        mant3    == IF over THEN 2 ^ wm - 1 ELSE mant2
    IN  IF field3 = 0 /\ mant3 = 0 THEN 0
        ELSE c.sign * 128 + field3 * 2 ^ wm + mant3

\* fp8_fnuz_from_fp32_value<we, wm, float, true /*negative_zero_nan*/, true /*clip*/>
fp8_fnuz_from_fp32_value(we, wm, val, stochastic, r) ==
    IF IsNaN(val) THEN NaNCode
    ELSE LET top == MaxFinite(we, wm, val.sign)
             c   == IF MagGreater(val, top) THEN top ELSE val
         IN  RoundAndPack(we, wm, c, stochastic, r)

\* fp8_fnuz_to_fp32_value<we, wm, float, true /*negative_zero_nan*/>
fp8_fnuz_to_fp32_value(we, wm, code) ==
    IF code = NaNCode THEN QuietNaN
    ELSE
    LET s == code \div 128
        e == (code % 128) \div (2 ^ wm)
        m == code % (2 ^ wm)
    IN  IF e = 0
        THEN IF m = 0 THEN Float(s, 0, 0)
             ELSE LET k == BitLen(m)
                  IN  Float(s, 127 + k - FormatBias(we) - wm,
                            (m - 2 ^ (k - 1)) * 2 ^ (24 - k))
        ELSE Float(s, e - FormatBias(we) + 127, m * 2 ^ (23 - wm))


---------------------------------------------------------------------------
(* Float8_e4m3fnuz.h and the Float8_e5m2fnuz header: the constructors and  *)
(* conversions of the two value types.                                     *)

\* constexpr Float8_e4m3fnuz(uint8_t bits, from_bits_t) : x(bits)
from_bits(bits) == bits

\* mutant: negative_zero_nan passed as false, a negative zero keeps its sign bit
Float8_e4m3fnuz_signed_zero(val, mode, r) ==
    LET c == fp8_fnuz_from_fp32_value(4, 3, val, mode = "stochastic", r)
    IN  IF c = 0 /\ val.sign = 1 /\ ~IsNaN(val) THEN 128 ELSE c

\* mutant: rng is not forwarded, the callee's default 0 is used
Float8_e4m3fnuz_rng_dropped(val, mode, r) ==
    fp8_fnuz_from_fp32_value(4, 3, val, mode = "stochastic", 0)

\* Float8_e4m3fnuz(float v, rounding_mode rm, uint32_t rng): software path
Float8_e4m3fnuz(val, mode, r) ==
    fp8_fnuz_from_fp32_value(4, 3, val, mode = "stochastic", r)

\* mutant: clip passed as false, an out-of-range value overflows into 0x80
Float8_e5m2fnuz_no_clip(val, mode, r) ==
    IF val.exp # 255 /\ MagGreater(val, MaxFinite(5, 2, val.sign)) THEN 128
    ELSE fp8_fnuz_from_fp32_value(5, 2, val, mode = "stochastic", r)

\* Float8_e5m2fnuz(float v, rounding_mode rm, uint32_t rng): software path
Float8_e5m2fnuz(val, mode, r) ==
    fp8_fnuz_from_fp32_value(5, 2, val, mode = "stochastic", r)

\* mutant: the template arguments of the other format
Float8_e4m3fnuz_to_float_5_2(code) == fp8_fnuz_to_fp32_value(5, 2, code)

\* Float8_e4m3fnuz::operator float() const
Float8_e4m3fnuz_to_float(code) == fp8_fnuz_to_fp32_value(4, 3, code)

\* mutant: the template arguments of the other format
Float8_e5m2fnuz_to_float_4_3(code) == fp8_fnuz_to_fp32_value(4, 3, code)

\* Float8_e5m2fnuz::operator float() const
Float8_e5m2fnuz_to_float(code) == fp8_fnuz_to_fp32_value(5, 2, code)

\* mutant: the sign bit is masked off before the comparison
Float8_e4m3fnuz_isnan_masked(code) == code % 128 = 0

\* Float8_e4m3fnuz::isnan(): x == 0b10000000
Float8_e4m3fnuz_isnan(code) == code = NaNCode

\* Float8_e5m2fnuz::isnan(): declared in the header, defined in the -inl file
Float8_e5m2fnuz_isnan(code) == code = NaNCode

---------------------------------------------------------------------------
(* The MI300 device path.                                                  *)

\* __builtin_amdgcn_fmed3f(val, hi, -hi): the median of the three, for a
\* non-NaN val the clamp of val to [-hi, hi]
fmed3f(val, we, wm) ==
    IF MagGreater(val, MaxFinite(we, wm, val.sign))
    THEN MaxFinite(we, wm, val.sign) ELSE val

\* __builtin_amdgcn_cvt_pk_fp8_f32 / __builtin_amdgcn_cvt_sr_fp8_f32 (and the
\* bf8 pair): the hardware conversion. A finite value converts as the software
\* codec converts it; NaN and infinity are propagated, and the only non-finite
\* code of the format is NaNCode (numeric_limits::infinity() is 0x80 too).
amdgcn_cvt_f32(we, wm, val, stochastic, r) ==
    IF val.exp = 255 THEN NaNCode
    ELSE RoundAndPack(we, wm, val, stochastic, r)

\* mutant: the clamp is applied without the NaN/Inf guard
fp8e4m3fnuz_from_fp32_value_unguarded(stochastic_rounding, val, r) ==
    amdgcn_cvt_f32(4, 3, fmed3f(val, 4, 3), stochastic_rounding, r)

\* detail::fp8e4m3fnuz_from_fp32_value<stochastic_rounding>(v, rng)
fp8e4m3fnuz_from_fp32_value(stochastic_rounding, val, r) ==
    LET clipped == IF val.exp # 255   \* (i32val & 0x7F800000) != 0x7F800000
                   THEN fmed3f(val, 4, 3)
                   ELSE val           \* propagate NAN/INF, no clipping
    IN  amdgcn_cvt_f32(4, 3, clipped, stochastic_rounding, r)

\* detail::fp8e5m2fnuz_from_fp32_value<stochastic_rounding>(v, rng)
fp8e5m2fnuz_from_fp32_value(stochastic_rounding, val, r) ==
    LET clipped == IF val.exp # 255
                   THEN fmed3f(val, 5, 2)
                   ELSE val
    IN  amdgcn_cvt_f32(5, 2, clipped, stochastic_rounding, r)

\* C10_DEVICE Float8_e4m3fnuz(float v, rounding_mode rm, uint32_t rng)
Float8_e4m3fnuz_device(val, mode, r) ==
    IF mode = "stochastic"
    THEN fp8e4m3fnuz_from_fp32_value(TRUE, val, r)
    ELSE fp8e4m3fnuz_from_fp32_value(FALSE, val, 0)

\* mutant: the runtime branch on rm always takes the stochastic arm
Float8_e5m2fnuz_device_always_stochastic(val, mode, r) ==
    fp8e5m2fnuz_from_fp32_value(TRUE, val, r)

\* C10_DEVICE Float8_e5m2fnuz(float v, rounding_mode rm, uint32_t rng)
Float8_e5m2fnuz_device(val, mode, r) ==
    IF mode = "stochastic"
    THEN fp8e5m2fnuz_from_fp32_value(TRUE, val, r)
    ELSE fp8e5m2fnuz_from_fp32_value(FALSE, val, 0)

---------------------------------------------------------------------------
(* Dispatch on the value type and the path.                                *)

Formats == {"e4m3fnuz", "e5m2fnuz"}

ExpBits(t) == IF t = "e4m3fnuz" THEN 4 ELSE 5

ManBits(t) == IF t = "e4m3fnuz" THEN 3 ELSE 2

Construct(t, p, val, mode, r) ==
    IF p = "host"
    THEN IF t = "e4m3fnuz" THEN Float8_e4m3fnuz(val, mode, r)
         ELSE Float8_e5m2fnuz(val, mode, r)
    ELSE IF t = "e4m3fnuz" THEN Float8_e4m3fnuz_device(val, mode, r)
         ELSE Float8_e5m2fnuz_device(val, mode, r)

ToFloat(t, code) ==
    IF t = "e4m3fnuz" THEN Float8_e4m3fnuz_to_float(code)
    ELSE Float8_e5m2fnuz_to_float(code)

IsNanCode(t, code) ==
    IF t = "e4m3fnuz" THEN Float8_e4m3fnuz_isnan(code)
    ELSE Float8_e5m2fnuz_isnan(code)

---------------------------------------------------------------------------
(* The sampled float32 inputs of a format: every exponent from ExpMargin   *)
(* below half the smallest subnormal to ExpMargin above the largest finite *)
(* value, with float32 zero/subnormals, 1.0e10, the largest finite float32 *)
(* exponent and infinity/NaN; every pattern of the leading MantTopBits     *)
(* mantissa bits, with and without a trailing one bit.                     *)

SampleExps(t) ==
    LET lo == 127 - FormatBias(ExpBits(t)) - ManBits(t) - ExpMargin
        hi == 127 + MaxExpField(ExpBits(t)) - FormatBias(ExpBits(t)) + ExpMargin
    IN  (lo..hi) \cup {0, 254, 255}

SampleMans ==
    {top * 2 ^ (23 - MantTopBits) + low : top \in 0..(2 ^ MantTopBits - 1), low \in {0, 1}}

\* 1.0e10f = 0x501502F9
TenBillion(s) == Float(s, 160, 1377017)

Inputs(t) ==
    {Float(s, e, m) : s \in {0, 1}, e \in SampleExps(t), m \in SampleMans}
        \cup {TenBillion(0), TenBillion(1)}

Modes == {"standard", "stochastic"}

\* random bits inside and above the discarded range (20 or 21 bits wide)
RngSamples ==
    {0, 1, 2 ^ 19, 2 ^ 19 + 1, 2 ^ 20, 3 * 2 ^ 19 + 1, 2 ^ 21 - 1, 2 ^ 21 + 2 ^ 19}

NoFloat == Float(0, 0, 0)

---------------------------------------------------------------------------
(* Specification SpecEncode: a float32 is converted to a narrow value.     *)

InitEncode ==
    /\ fmt \in Formats
    /\ v \in Inputs(fmt)
    /\ pc = "input"
    /\ path = "none" /\ rm = "standard" /\ rng = 0
    /\ x = 0 /\ f = NoFloat /\ y = 0 /\ lim = "none"
    /\ acc = 0 /\ lhs = 0 /\ rhs = 0 /\ op = "none" /\ res = 0

\* host (and non-MI300 device) constructor from float
ConstructHost(mode, r) ==
    /\ pc = "input"
    /\ x' = Construct(fmt, "host", v, mode, r)
    /\ path' = "host" /\ rm' = mode /\ rng' = r
    /\ pc' = "encoded"
    /\ UNCHANGED <<fmt, v, f, y, lim, acc, lhs, rhs, op, res>>

\* MI300 device constructor from float
ConstructDevice(mode, r) ==
    /\ pc = "input"
    /\ x' = Construct(fmt, "device", v, mode, r)
    /\ path' = "device" /\ rm' = mode /\ rng' = r
    /\ pc' = "encoded"
    /\ UNCHANGED <<fmt, v, f, y, lim, acc, lhs, rhs, op, res>>

NextEncode ==
    \/ \E mode \in Modes, r \in RngSamples : ConstructHost(mode, r)
    \/ \E mode \in Modes, r \in RngSamples : ConstructDevice(mode, r)

SpecEncode == InitEncode /\ [][NextEncode]_vars

---------------------------------------------------------------------------
(* std::numeric_limits<c10::Float8_e4m3fnuz>: the members that return a    *)
(* value, each built with from_bits.                                       *)

LimitNames ==
    {"min", "lowest", "max", "epsilon", "round_error", "infinity", "quiet_NaN",
     "denorm_min"}

\* mutant: epsilon() keeps the pattern of Float8_e4m3fn (bias 7)
numeric_limits_epsilon_e4m3fn(name) ==
    CASE name = "min"         -> from_bits(8)
      [] name = "lowest"      -> from_bits(255)
      [] name = "max"         -> from_bits(127)
      [] name = "epsilon"     -> from_bits(32)
      [] name = "round_error" -> from_bits(56)
      [] name = "infinity"    -> from_bits(128)
      [] name = "quiet_NaN"   -> from_bits(128)
      [] name = "denorm_min"  -> from_bits(1)

numeric_limits(name) ==
    CASE name = "min"         -> from_bits(8)     \* 0x08
      [] name = "lowest"      -> from_bits(255)   \* 0xFF
      [] name = "max"         -> from_bits(127)   \* 0x7F
      [] name = "epsilon"     -> from_bits(40)    \* 0x28
      [] name = "round_error" -> from_bits(56)    \* 0x38
      [] name = "infinity"    -> from_bits(128)   \* 0x80, NaN (no infinities)
      [] name = "quiet_NaN"   -> from_bits(128)   \* 0x80
      [] name = "denorm_min"  -> from_bits(1)     \* 0x01

---------------------------------------------------------------------------
(* Specification SpecCodes: a value is made from a bit pattern or taken    *)
(* from numeric_limits, converted to float and converted back.             *)

InitCodes ==
    /\ fmt \in Formats
    /\ pc = "start"
    /\ v = NoFloat /\ path = "none" /\ rm = "standard" /\ rng = 0
    /\ x = 0 /\ f = NoFloat /\ y = 0 /\ lim = "none"
    /\ acc = 0 /\ lhs = 0 /\ rhs = 0 /\ op = "none" /\ res = 0

\* Float8_xxx(bits, from_bits())
FromBits(bits) ==
    /\ pc = "start"
    /\ x' = from_bits(bits)
    /\ lim' = "from_bits"
    /\ pc' = "value"
    /\ UNCHANGED <<fmt, path, v, rm, rng, f, y, acc, lhs, rhs, op, res>>

\* std::numeric_limits<c10::Float8_e4m3fnuz>::name()
NumericLimit(name) ==
    /\ pc = "start"
    /\ fmt = "e4m3fnuz"
    /\ x' = numeric_limits(name)
    /\ lim' = name
    /\ pc' = "value"
    /\ UNCHANGED <<fmt, path, v, rm, rng, f, y, acc, lhs, rhs, op, res>>

\* static_cast<float>(value)
OperatorFloat ==
    /\ pc = "value"
    /\ f' = ToFloat(fmt, x)
    /\ pc' = "decoded"
    /\ UNCHANGED <<fmt, path, v, rm, rng, x, y, lim, acc, lhs, rhs, op, res>>

\* Float8_xxx(f): the float is converted back with the default arguments
Reconstruct(p) ==
    /\ pc = "decoded"
    /\ y' = Construct(fmt, p, f, "standard", 0)
    /\ path' = p
    /\ pc' = "reencoded"
    /\ UNCHANGED <<fmt, v, rm, rng, x, f, lim, acc, lhs, rhs, op, res>>

NextCodes ==
    \/ \E bits \in 0..255 : FromBits(bits)
    \/ \E name \in LimitNames : NumericLimit(name)
    \/ OperatorFloat
    \/ \E p \in {"host", "device"} : Reconstruct(p)

SpecCodes == InitCodes /\ [][NextCodes]_vars

---------------------------------------------------------------------------
(* float32 arithmetic (round to nearest even) on the values the operators  *)
(* hand it: NaN, or a decoded Float8_e4m3fnuz value, which has at most 4   *)
(* significant bits and an exponent in -10..7, so results never underflow. *)

Infinity(s) == Float(s, 255, 0)

\* a nonzero finite float as sig * 2^e with sig odd
OddSig(fl) ==
    LET sig == IF fl.exp = 0 THEN fl.man ELSE 2 ^ 23 + fl.man
        e   == IF fl.exp = 0 THEN -149 ELSE fl.exp - 150
        tz  == CHOOSE k \in 0..23 : sig % (2 ^ k) = 0 /\ sig % (2 ^ (k + 1)) # 0
    IN  [m |-> sig \div (2 ^ tz), e |-> e + tz]

\* the float32 nearest to (-1)^s * (m + t) * 2^e, where m > 0 and the sticky
\* flag says 0 < t < 1
RoundToFloat(s, m, e, sticky) ==
    LET k == BitLen(m)
    IN  IF k <= 24
        THEN Float(s, e + k - 1 + 127, m * 2 ^ (24 - k) - 2 ^ 23)
        ELSE LET sh      == k - 24
                 kept    == m \div (2 ^ sh)
                 disc    == m % (2 ^ sh)
                 half    == 2 ^ (sh - 1)
                 up      == \/ disc > half
                            \/ disc = half /\ (sticky \/ kept % 2 = 1)
                 rounded == kept + (IF up THEN 1 ELSE 0)
                 ex      == e + k - 1 + 127 + (IF rounded = 2 ^ 24 THEN 1 ELSE 0)
                 man     == IF rounded = 2 ^ 24 THEN 0 ELSE rounded - 2 ^ 23
             IN  IF ex >= 255 THEN Infinity(s) ELSE Float(s, ex, man)

FloatNeg(a) == Float(1 - a.sign, a.exp, a.man)

FloatAdd(a, b) ==
    IF IsNaN(a) \/ IsNaN(b) THEN QuietNaN
    ELSE IF IsInf(a) /\ IsInf(b) THEN (IF a.sign = b.sign THEN a ELSE QuietNaN)
    ELSE IF IsInf(a) THEN a
    ELSE IF IsInf(b) THEN b
    ELSE IF IsZero(a) /\ IsZero(b) THEN Float(IF a.sign = b.sign THEN a.sign ELSE 0, 0, 0)
    ELSE IF IsZero(a) THEN b
    ELSE IF IsZero(b) THEN a
    ELSE LET p   == OddSig(a)
             q   == OddSig(b)
             e0  == Min(p.e, q.e)
             sum == (IF a.sign = 1 THEN -1 ELSE 1) * p.m * 2 ^ (p.e - e0)
                      + (IF b.sign = 1 THEN -1 ELSE 1) * q.m * 2 ^ (q.e - e0)
         IN  IF sum = 0 THEN Float(0, 0, 0)
             ELSE IF sum < 0 THEN RoundToFloat(1, -sum, e0, FALSE)
             ELSE RoundToFloat(0, sum, e0, FALSE)

FloatSub(a, b) == FloatAdd(a, FloatNeg(b))

FloatMul(a, b) ==
    LET s == (a.sign + b.sign) % 2
    IN  IF IsNaN(a) \/ IsNaN(b) THEN QuietNaN
        ELSE IF (IsInf(a) /\ IsZero(b)) \/ (IsZero(a) /\ IsInf(b)) THEN QuietNaN
        ELSE IF IsInf(a) \/ IsInf(b) THEN Infinity(s)
        ELSE IF IsZero(a) \/ IsZero(b) THEN Float(s, 0, 0)
        ELSE LET p == OddSig(a)
                 q == OddSig(b)
             IN  RoundToFloat(s, p.m * q.m, p.e + q.e, FALSE)

\* division by zero is not trapped (__ubsan_ignore_float_divide_by_zero__)
FloatDiv(a, b) ==
    LET s == (a.sign + b.sign) % 2
    IN  IF IsNaN(a) \/ IsNaN(b) THEN QuietNaN
        ELSE IF (IsInf(a) /\ IsInf(b)) \/ (IsZero(a) /\ IsZero(b)) THEN QuietNaN
        ELSE IF IsInf(a) \/ IsZero(b) THEN Infinity(s)
        ELSE IF IsZero(a) \/ IsInf(b) THEN Float(s, 0, 0)
        ELSE LET p  == OddSig(a)
                 q  == OddSig(b)
                 \* both significands brought to exactly 4 bits
                 pm == p.m * 2 ^ (4 - BitLen(p.m))
                 pe == p.e - (4 - BitLen(p.m))
                 qm == q.m * 2 ^ (4 - BitLen(q.m))
                 qe == q.e - (4 - BitLen(q.m))
                 n  == pm * 2 ^ 26
             IN  RoundToFloat(s, n \div qm, pe - 26 - qe, n % qm # 0)

---------------------------------------------------------------------------
(* Float8_e4m3fnuz-inl.h: the operators on two narrow operands. Each       *)
(* returns a float expression, which the return type converts with the     *)
(* constructor's default arguments (standard rounding, rng = 0).           *)

operator_plus(a, b) ==
    Float8_e4m3fnuz(FloatAdd(Float8_e4m3fnuz_to_float(a), Float8_e4m3fnuz_to_float(b)),
                    "standard", 0)

operator_minus(a, b) ==
    Float8_e4m3fnuz(FloatSub(Float8_e4m3fnuz_to_float(a), Float8_e4m3fnuz_to_float(b)),
                    "standard", 0)

operator_times(a, b) ==
    Float8_e4m3fnuz(FloatMul(Float8_e4m3fnuz_to_float(a), Float8_e4m3fnuz_to_float(b)),
                    "standard", 0)

operator_divide(a, b) ==
    Float8_e4m3fnuz(FloatDiv(Float8_e4m3fnuz_to_float(a), Float8_e4m3fnuz_to_float(b)),
                    "standard", 0)

\* mutant: negation by flipping the sign bit of the code
operator_negate_bit_flip(a) == from_bits((a + 128) % 256)

operator_negate(a) ==
    Float8_e4m3fnuz(FloatNeg(Float8_e4m3fnuz_to_float(a)), "standard", 0)

\* a = a + b; return a;
operator_plus_assign(a, b) == operator_plus(a, b)

operator_minus_assign(a, b) == operator_minus(a, b)

operator_times_assign(a, b) == operator_times(a, b)

operator_divide_assign(a, b) == operator_divide(a, b)

---------------------------------------------------------------------------
(* Specification SpecArith: one operator is applied to a Float8_e4m3fnuz   *)
(* object acc and a right operand.                                         *)

\* right operands: zero, NaN, the subnormal and normal extremes of both
\* signs, 1.0 and its neighbours, and values whose quotients are inexact
Operands ==
    {0, 128, 1, 7, 8, 9, 40, 56, 63, 64, 65, 69, 75, 127, 129, 192, 203, 255}

InitArith ==
    /\ fmt = "e4m3fnuz"
    /\ acc \in 0..255
    /\ pc = "operands"
    /\ v = NoFloat /\ path = "host" /\ rm = "standard" /\ rng = 0
    /\ x = 0 /\ f = NoFloat /\ y = 0 /\ lim = "none"
    /\ lhs = 0 /\ rhs = 0 /\ op = "none" /\ res = 0

Binary(name, b, result) ==
    /\ pc = "operands"
    /\ lhs' = acc /\ rhs' = b /\ op' = name
    /\ res' = result
    /\ acc' = acc
    /\ pc' = "applied"
    /\ UNCHANGED <<fmt, path, v, rm, rng, x, f, y, lim>>

Compound(name, b, result) ==
    /\ pc = "operands"
    /\ lhs' = acc /\ rhs' = b /\ op' = name
    /\ acc' = result
    /\ res' = result
    /\ pc' = "applied"
    /\ UNCHANGED <<fmt, path, v, rm, rng, x, f, y, lim>>

Plus(b) == Binary("+", b, operator_plus(acc, b))

Minus(b) == Binary("-", b, operator_minus(acc, b))

Times(b) == Binary("*", b, operator_times(acc, b))

Divide(b) == Binary("/", b, operator_divide(acc, b))

Negate == Binary("neg", 0, operator_negate(acc))

PlusAssign(b) == Compound("+=", b, operator_plus_assign(acc, b))

MinusAssign(b) == Compound("-=", b, operator_minus_assign(acc, b))

TimesAssign(b) == Compound("*=", b, operator_times_assign(acc, b))

DivideAssign(b) == Compound("/=", b, operator_divide_assign(acc, b))

NextArith ==
    \/ \E b \in Operands : Plus(b)
    \/ \E b \in Operands : Minus(b)
    \/ \E b \in Operands : Times(b)
    \/ \E b \in Operands : Divide(b)
    \/ Negate
    \/ \E b \in Operands : PlusAssign(b)
    \/ \E b \in Operands : MinusAssign(b)
    \/ \E b \in Operands : TimesAssign(b)
    \/ \E b \in Operands : DivideAssign(b)

SpecArith == InitArith /\ [][NextArith]_vars

---------------------------------------------------------------------------
(* Exact values, for stating the properties: the dyadic [m, e] is m * 2^e. *)

Dy(m, e) == [m |-> m, e |-> e]

\* a <= b, aligning the two only when their leading bits are at one position
DyLeq(a, b) ==
    IF a.m = 0 THEN TRUE
    ELSE IF b.m = 0 THEN FALSE
    ELSE LET pa == a.e + BitLen(a.m)
             pb == b.e + BitLen(b.m)
             e0 == Min(a.e, b.e)
         IN  IF pa # pb THEN pa < pb
             ELSE a.m * 2 ^ (a.e - e0) <= b.m * 2 ^ (b.e - e0)

DyEq(a, b) == DyLeq(a, b) /\ DyLeq(b, a)

DyLess(a, b) == ~DyLeq(b, a)

\* the magnitude of a finite float32
FloatMag(fl) ==
    IF fl.exp = 0 THEN Dy(fl.man, -149) ELSE Dy(2 ^ 23 + fl.man, fl.exp - 150)

\* the magnitude a 7-bit magnitude code c stands for: (mantissa / 2^wm) *
\* 2^(1 - bias) when the exponent field is 0, else (1 + mantissa / 2^wm) *
\* 2^(field - bias); its e is the exponent of the unit in the last place
CodeMag(t, c) ==
    LET wm    == ManBits(t)
        bias  == FormatBias(ExpBits(t))
        field == c \div (2 ^ wm)
        m     == c % (2 ^ wm)
    IN  IF field = 0 THEN Dy(m, 1 - bias - wm)
        ELSE Dy(2 ^ wm + m, field - bias - wm)

\* the magnitude operator float() gives magnitude code c (0..127)
DecodedMag(t, c) == FloatMag(ToFloat(t, c))

\* half way between the decoded magnitudes of the adjacent codes c and c + 1
Mid(t, c) ==
    LET a  == DecodedMag(t, c)
        b  == DecodedMag(t, c + 1)
        e0 == IF a.m = 0 THEN b.e ELSE Min(a.e, b.e)
    IN  Dy(a.m * 2 ^ (IF a.m = 0 THEN 0 ELSE a.e - e0) + b.m * 2 ^ (b.e - e0), e0 - 1)

MaxCode(s) == 127 + 128 * s

Finite(fl) == fl.exp # 255

\* |fl| <= max_finite_magnitude of format t
InRange(t, fl) ==
    Finite(fl) /\ ~MagGreater(fl, MaxFinite(ExpBits(t), ManBits(t), fl.sign))

Encoded == pc = "encoded"

---------------------------------------------------------------------------
(* Properties of SpecEncode.                                               *)

\* C2: every float32 NaN (any payload, either sign), in either rounding mode
\* and for any random bits, converts to the single code 0x80, and isnan() of
\* a code is true exactly when the code is 0x80.
C2_NaNCanonical ==
    /\ (Encoded /\ IsNaN(v)) => x = 128
    /\ Encoded => (IsNanCode(fmt, x) <=> x = 128)
    /\ pc = "input" => \A c \in 0..255 : IsNanCode(fmt, c) <=> c = 128

C2_Witness ==
    /\ Encoded /\ IsNaN(v) /\ v.sign = 1 /\ v.man = 1
    /\ rm = "stochastic" /\ rng # 0
    /\ x = 128 /\ IsNanCode(fmt, x)

\* C3: a result of zero magnitude is the code 0x00, never 0x80: both signed
\* zeros convert to 0x00 in either mode, and a nonzero finite input of either
\* sign that rounds to zero converts to 0x00 as well.
C3_UnsignedZero ==
    (Encoded /\ Finite(v)) =>
        /\ x # 128
        /\ IsZero(v) => x = 0
        /\ (rm = "standard" /\ DyLeq(FloatMag(v), Mid(fmt, 0))) => x = 0
        /\ DyLess(FloatMag(v), DecodedMag(fmt, 1)) => x \in {0, 1, 129}

C3_Witness ==
    /\ Encoded /\ v.sign = 1 /\ ~IsZero(v) /\ Finite(v)
    /\ rm = "standard" /\ x = 0

\* C4: a finite float32 whose magnitude exceeds max_finite_magnitude converts,
\* with standard rounding, to the maximum finite code of its sign (0x7F or
\* 0xFF), which decodes to +max or -max; never to 0x80 or a smaller magnitude.
C4_Saturation ==
    (Encoded /\ rm = "standard" /\ Finite(v) /\ ~InRange(fmt, v)) =>
        /\ x = MaxCode(v.sign)
        /\ ToFloat(fmt, x) = MaxFinite(ExpBits(fmt), ManBits(fmt), v.sign)

C4_Witness ==
    /\ Encoded /\ rm = "standard" /\ v = TenBillion(1)
    /\ x = 255 /\ ToFloat(fmt, x).exp = (IF fmt = "e4m3fnuz" THEN 134 ELSE 142)

C6_NearestEven ==
    (Encoded /\ rm = "standard" /\ InRange(fmt, v)) =>
        LET a == FloatMag(v)
            c == x % 128
        IN  /\ x # 128
            /\ x = Construct(fmt, path, v, "standard", 0)
            /\ c # 0 => x \div 128 = v.sign
            /\ c > 0 => DyLeq(Mid(fmt, c - 1), a)
            /\ c < 127 => DyLeq(a, Mid(fmt, c))
            /\ (c > 0 /\ DyEq(a, Mid(fmt, c - 1))) => c % 2 = 0
            /\ (c < 127 /\ DyEq(a, Mid(fmt, c))) => c % 2 = 0
            /\ c > 0 => DyLeq(DecodedMag(fmt, c - 1), a)
            /\ c < 127 => DyLeq(a, DecodedMag(fmt, c + 1))

\* a tie in the subnormal range rounded up across the subnormal/normal carry
C6_Witness ==
    /\ Encoded /\ rm = "standard" /\ rng # 0 /\ InRange(fmt, v)
    /\ x % 128 = 2 ^ ManBits(fmt)
    /\ DyEq(FloatMag(v), Mid(fmt, 2 ^ ManBits(fmt) - 1))

\* width of the discarded range and value of the discarded bits of v when
\* the kept bits are those of magnitude code lo
DiscardWidth(t, lo, fl) == CodeMag(t, lo).e - FloatMag(fl).e

Discarded(t, lo, fl) ==
    IF lo = 0 THEN FloatMag(fl).m
    ELSE FloatMag(fl).m - CodeMag(t, lo).m * 2 ^ DiscardWidth(t, lo, fl)

RngInRange(r, dw) == dw >= 30 \/ r < 2 ^ dw

\* the magnitude code just below (or at) |fl|, for |fl| <= max_finite_magnitude
FloorCode(t, fl) ==
    CHOOSE c \in 0..127 :
        /\ DyLeq(DecodedMag(t, c), FloatMag(fl))
        /\ c < 127 => DyLess(FloatMag(fl), DecodedMag(t, c + 1))

\* C7: in stochastic mode an in-range, non-NaN v is rounded up to the next
\* code iff the random value (taken over the discarded range) is less than the
\* value of the discarded bits, and is truncated otherwise; the result is one
\* of the two codes bracketing v, a representable v is unchanged for every r,
\* and as many r round up as the discarded bits' value says.
C7_Stochastic ==
    /\ (Encoded /\ rm = "stochastic" /\ InRange(fmt, v)) =>
        LET a == FloatMag(v)
            c == x % 128
        IN  /\ x # 128
            /\ c # 0 => x \div 128 = v.sign
            /\ IF DyLeq(DecodedMag(fmt, c), a)
               THEN \* truncated: c is the code just below (or at) v
                    /\ c < 127 => DyLess(a, DecodedMag(fmt, c + 1))
                    /\ RngInRange(rng, DiscardWidth(fmt, c, v))
                         => ~(rng < Discarded(fmt, c, v))
               ELSE \* rounded up: c - 1 is the code just below v
                    /\ c > 0
                    /\ DyLess(DecodedMag(fmt, c - 1), a)
                    /\ RngInRange(rng, DiscardWidth(fmt, c - 1, v))
                         => rng < Discarded(fmt, c - 1, v)
    /\ (pc = "input" /\ InRange(fmt, v)) =>
        LET lo == FloorCode(fmt, v)
            dw == DiscardWidth(fmt, lo, v)
            rs == {r \in RngSamples : RngInRange(r, dw)}
        IN  \A p \in {"host", "device"} :
              Cardinality({r \in rs : Construct(fmt, p, v, "stochastic", r) % 128 = lo + 1})
                = Cardinality({r \in rs : r < Discarded(fmt, lo, v)})

C7_Witness ==
    /\ Encoded /\ rm = "stochastic" /\ InRange(fmt, v)
    /\ rng = 2 ^ 19 /\ x % 128 > 8
    /\ DyLess(DecodedMag(fmt, (x % 128) - 1), FloatMag(v))
    /\ DyLess(FloatMag(v), DecodedMag(fmt, x % 128))

---------------------------------------------------------------------------
(* Properties of SpecCodes.                                                *)

Decoded == pc \in {"decoded", "reencoded"}

\* C1: for both formats and every code other than the NaN sentinel 0x80,
\* converting the decoded float back with standard rounding gives the code.
C1_RoundTrip ==
    (pc = "reencoded" /\ x # 128) => y = x

C1_Witness ==
    /\ pc = "reencoded" /\ fmt = "e5m2fnuz" /\ lim = "from_bits"
    /\ x = 129 /\ y = 129 /\ f.sign = 1

\* C8: decoding is total: 0x80 gives NaN; a code with exponent field 0 gives
\* sign * (mantissa / 2^wm) * 2^(1 - bias), so 0x00 gives 0; any other code
\* gives sign * (1 + mantissa / 2^wm) * 2^(field - bias); 0x40 gives 1.0 in
\* both formats; every code but 0x80 gives a finite value of magnitude at most
\* max_finite_magnitude.
C8_Decode ==
    Decoded =>
        /\ f.sign \in {0, 1} /\ f.exp \in 0..255 /\ f.man \in 0..(2 ^ 23 - 1)
        /\ x = 128 => IsNaN(f)
        /\ x # 128 =>
             /\ Finite(f)
             /\ InRange(fmt, f)
             /\ f.sign = x \div 128
             /\ DyEq(FloatMag(f), CodeMag(fmt, x % 128))
        /\ x = 0 => f = Float(0, 0, 0)
        /\ x = 64 => f = Float(0, 127, 0)

C8_Witness ==
    /\ Decoded /\ fmt = "e5m2fnuz" /\ x = 131
    /\ f = Float(1, 127 - 16, 2 ^ 22)

DyAdd(a, b) ==
    LET e0 == Min(a.e, b.e)
    IN  Dy(a.m * 2 ^ (a.e - e0) + b.m * 2 ^ (b.e - e0), e0)

\* C10: the numeric_limits<Float8_e4m3fnuz> bit patterns agree with the
\* decoder: max() = 0x7F is 240.0, the largest finite value; lowest() = 0xFF
\* is -240.0; min() = 0x08 is the smallest positive normal value 2^-7;
\* denorm_min() = 0x01 is the smallest positive value 2^-10; epsilon() = 0x28
\* is the gap 2^-3 between 1.0 (0x40) and the next code 0x41; round_error() =
\* 0x38 is 0.5; quiet_NaN() and infinity() are the sentinel 0x80, for which
\* isnan() is true.
C10_NumericLimits ==
    (Decoded /\ lim \in LimitNames) =>
        /\ lim = "max" =>
             /\ x = 127 /\ f = Float(0, 134, 7 * 2 ^ 20)
             /\ f = MaxFinite(4, 3, 0)
             /\ \A c \in (0..255) \ {128} : ~MagGreater(ToFloat(fmt, c), f)
        /\ lim = "lowest" =>
             /\ x = 255 /\ f = Float(1, 134, 7 * 2 ^ 20)
        /\ lim = "min" =>
             /\ x = 8 /\ f = Float(0, 120, 0)
             /\ x \div 8 = 1 /\ x % 8 = 0
        /\ lim = "denorm_min" =>
             /\ x = 1 /\ f = Float(0, 117, 0)
             /\ \A c \in 1..127 : ~MagGreater(f, ToFloat(fmt, c))
        /\ lim = "epsilon" =>
             /\ x = 40 /\ f = Float(0, 124, 0)
             /\ ToFloat(fmt, 64) = Float(0, 127, 0)
             /\ DyEq(DyAdd(DecodedMag(fmt, 64), FloatMag(f)), DecodedMag(fmt, 65))
        /\ lim = "round_error" =>
             /\ x = 56 /\ f = Float(0, 126, 0)
        /\ lim \in {"quiet_NaN", "infinity"} =>
             /\ x = 128 /\ IsNanCode(fmt, x) /\ IsNaN(f)

C10_Witness ==
    /\ Decoded /\ lim = "epsilon" /\ x = 40 /\ f = Float(0, 124, 0)

---------------------------------------------------------------------------
(* Properties of SpecArith.                                                *)

Applied == pc = "applied"

\* the float32 operation an operator stands for
FloatOp(name, a, b) ==
    CASE name \in {"+", "+="} -> FloatAdd(a, b)
      [] name \in {"-", "-="} -> FloatSub(a, b)
      [] name \in {"*", "*="} -> FloatMul(a, b)
      [] name \in {"/", "/="} -> FloatDiv(a, b)
      [] name = "neg"         -> FloatNeg(a)

\* C9: every operator on narrow operands (+, -, *, /, unary -, +=, -=, *=, /=)
\* gives encode(decode(a) op decode(b), standard): both operands are decoded,
\* the operation is done in float32 and the result converted back with
\* standard rounding and no random bits; the compound forms store that result
\* in the left operand; -a of 0x00 is 0x00, and a NaN operand gives 0x80.
C9_Arithmetic ==
    Applied =>
        /\ res = fp8_fnuz_from_fp32_value(4, 3,
                    FloatOp(op, fp8_fnuz_to_fp32_value(4, 3, lhs),
                                fp8_fnuz_to_fp32_value(4, 3, rhs)), FALSE, 0)
        /\ op \in {"+=", "-=", "*=", "/="} => acc = res
        /\ op \in {"+", "-", "*", "/", "neg"} => acc = lhs
        /\ (op = "neg" /\ lhs = 0) => res = 0
        /\ lhs = 128 => res = 128
        /\ (rhs = 128 /\ op # "neg") => res = 128

C9_Witness ==
    /\ Applied /\ op = "/=" /\ lhs = 64 /\ rhs = 75
    /\ acc = res /\ res = 52

============================================================================
